---- MODULE Spec2Model ----
(***************************************************************************)
(* Model of the composer deployment pipeline (main.go).                    *)
(*                                                                         *)
(* Go strings on which the program does character work (splitting,         *)
(* parsing, concatenation) are sequences of one-character strings.  Map    *)
(* keys that the program only uses as literals ("STACK_NAME", ...) are     *)
(* plain strings.  A Go map value is a reference: the model keeps the map  *)
(* objects in `heap` and every variable of map type holds an index into    *)
(* it.                                                                     *)
(***************************************************************************)
EXTENDS Integers, Sequences, FiniteSets, TLC

VARIABLES
    pc,             \* position of main
    dotEnv,         \* the content of the .env file, as getcontainerEnv parsed it
    heap,           \* the env map objects that exist, by reference
    containerEnv,   \* main's containerEnv: a reference into heap
    c,              \* main's c: the config getConfig returned
    err,            \* the error getConfig returned ("" is nil)
    dockerNetworks, \* what the platform answered to NetworkList
    dockerNodes,    \* what the platform answered to NodeList
    networks,       \* main's networks
    nodes,          \* main's nodes
    configs,        \* main's configs: network name -> reference into heap
    worklist,       \* main's worklist
    calls,          \* the ServiceCreate calls issued, in order
    results,        \* the outcome of each issued call (TRUE: created)
    created,        \* the names printed by "created server: %s"
    fatal,          \* the message the run died with ("" while alive)
    exitCode        \* process exit status (-1 while running)

vars == <<pc, dotEnv, heap, containerEnv, c, err, dockerNetworks, dockerNodes,
          networks, nodes, configs, worklist, calls, results, created, fatal,
          exitCode>>

\* ------------------------------------------------------------------ bounds
MaxNets == 3
MaxNodes == 2
MaxNetStr == 3
MaxIntStr == 2

\* ----------------------------------------------------------------- strings
Ingress == <<"i", "n", "g", "r", "e", "s", "s">>
NetN == <<"n">>
NetM == <<"m">>
Underscore == <<"_">>

SeqsUpTo(S, n) == UNION {[1..k -> S] : k \in 0..n}

Range(s) == {s[i] : i \in DOMAIN s}

\* ------------------------------------------------------------- kv and env
KV(k, v) == [key |-> k, value |-> v]

\* the zero value of kv, what a Go map lookup of a missing key yields
ZeroKV == KV("", <<>>)

Get(e, k) == IF k \in DOMAIN e THEN e[k] ELSE ZeroKV

Put(e, k, v) == [x \in (DOMAIN e) \cup {k} |-> IF x = k THEN v ELSE e[x]]

EmptyMap == [x \in {} |-> x]

\* strings.Split(s, sep) for a one-character separator: scan left to right
RECURSIVE SplitFrom(_, _, _, _, _)
SplitFrom(s, sep, i, cur, acc) ==
    IF i > Len(s) THEN Append(acc, cur)
    ELSE IF s[i] = sep THEN SplitFrom(s, sep, i + 1, <<>>, Append(acc, cur))
    ELSE SplitFrom(s, sep, i + 1, Append(cur, s[i]), acc)

Split(s, sep) == SplitFrom(s, sep, 1, <<>>, <<>>)

getSubStringsMap(array) ==
    LET list == Split(array, ",")
    IN  [v \in Range(list) |-> v]

\* strconv.Atoi: optional sign, then at least one decimal digit.  Its range
\* error needs a literal of 19 digits or more; the literals of the model are
\* far shorter, so every well-formed literal is in range.
Digits == {"0", "1", "2", "3", "4", "5", "6", "7", "8", "9"}

DigitVal(ch) ==
    CASE ch = "0" -> 0 [] ch = "1" -> 1 [] ch = "2" -> 2 [] ch = "3" -> 3
      [] ch = "4" -> 4 [] ch = "5" -> 5 [] ch = "6" -> 6 [] ch = "7" -> 7
      [] ch = "8" -> 8 [] ch = "9" -> 9

RECURSIVE AtoiDigits(_, _, _)
AtoiDigits(s, i, n) ==
    IF i > Len(s) THEN [ok |-> TRUE, val |-> n]
    ELSE IF s[i] \notin Digits THEN [ok |-> FALSE, val |-> 0]
    ELSE AtoiDigits(s, i + 1, n * 10 + DigitVal(s[i]))

Atoi(s) ==
    LET signed == Len(s) > 0 /\ s[1] \in {"+", "-"}
        body == IF signed THEN Tail(s) ELSE s
        r == AtoiDigits(body, 1, 0)
    IN  IF Len(body) = 0 \/ ~r.ok THEN [ok |-> FALSE, val |-> 0]
        ELSE IF signed /\ s[1] = "-"
             THEN [ok |-> TRUE, val |-> 0 - r.val]
             ELSE [ok |-> TRUE, val |-> r.val]

\* ------------------------------------------------------------------ config
ZeroConfig == [AvoidNetworks |-> EmptyMap, AvoidMasters |-> 0]

ErrNone == ""
ErrAvoidNetworks == "invalid value passed for AVOID_NETWORKS"
ErrAvoidMasters == "invalid value passed for AVOID_INGRESS"

getConfigDefaultZero(e) ==
    LET avoidStrings == Get(e, "AVOID_NETWORKS")
        nets == getSubStringsMap(avoidStrings.value)
        avoidMastersString == Get(e, "AVOID_MASTERS")
        a == Atoi(avoidMastersString.value)
        c1 == IF avoidStrings.value # <<>>
              THEN [ZeroConfig EXCEPT !.AvoidNetworks = nets]
              ELSE [ZeroConfig EXCEPT !.AvoidNetworks = [v \in {Ingress} |-> v]]
    IN  IF avoidStrings.value # <<>> /\ Cardinality(DOMAIN nets) = 0
        THEN [cfg |-> ZeroConfig, err |-> ErrAvoidNetworks]
        ELSE IF avoidMastersString.value # <<>>
             THEN IF ~a.ok THEN [cfg |-> c1, err |-> ErrAvoidMasters]
                  ELSE [cfg |-> [c1 EXCEPT !.AvoidMasters = a.val], err |-> ErrNone]
             ELSE [cfg |-> [c1 EXCEPT !.AvoidMasters = 0], err |-> ErrNone]

getConfigAddToDefault(e) ==
    LET avoidStrings == Get(e, "AVOID_NETWORKS")
        nets == getSubStringsMap(avoidStrings.value)
        avoidMastersString == Get(e, "AVOID_MASTERS")
        a == Atoi(avoidMastersString.value)
        c1 == IF avoidStrings.value # <<>>
              THEN [ZeroConfig EXCEPT
                      !.AvoidNetworks = [v \in (DOMAIN nets) \cup {Ingress} |-> v]]
              ELSE [ZeroConfig EXCEPT !.AvoidNetworks = [v \in {Ingress} |-> v]]
    IN  IF avoidStrings.value # <<>> /\ Cardinality(DOMAIN nets) = 0
        THEN [cfg |-> ZeroConfig, err |-> ErrAvoidNetworks]
        ELSE IF avoidMastersString.value # <<>>
             THEN IF ~a.ok THEN [cfg |-> c1, err |-> ErrAvoidMasters]
                  ELSE [cfg |-> [c1 EXCEPT !.AvoidMasters = a.val], err |-> ErrNone]
             ELSE [cfg |-> [c1 EXCEPT !.AvoidMasters = 1], err |-> ErrNone]

getConfig(e) ==
    LET avoidStrings == Get(e, "AVOID_NETWORKS")
        nets == getSubStringsMap(avoidStrings.value)
        avoidMastersString == Get(e, "AVOID_MASTERS")
        a == Atoi(avoidMastersString.value)
        c1 == IF avoidStrings.value # <<>>
              THEN [ZeroConfig EXCEPT !.AvoidNetworks = nets]
              ELSE [ZeroConfig EXCEPT !.AvoidNetworks = [v \in {Ingress} |-> v]]
    IN  IF avoidStrings.value # <<>> /\ Cardinality(DOMAIN nets) = 0
        THEN [cfg |-> ZeroConfig, err |-> ErrAvoidNetworks]
        ELSE IF avoidMastersString.value # <<>>
             THEN IF ~a.ok THEN [cfg |-> c1, err |-> ErrAvoidMasters]
                  ELSE [cfg |-> [c1 EXCEPT !.AvoidMasters = a.val], err |-> ErrNone]
             ELSE [cfg |-> [c1 EXCEPT !.AvoidMasters = 1], err |-> ErrNone]

\* --------------------------------------------------------------- discovery
RECURSIVE networkLoop(_, _, _, _)
networkLoop(list, i, avoidNetworks, acc) ==
    IF i > Len(list) THEN acc
    ELSE IF list[i].Driver = "overlay" /\ list[i].Name \notin DOMAIN avoidNetworks
         THEN networkLoop(list, i + 1, avoidNetworks, Append(acc, list[i].Name))
         ELSE networkLoop(list, i + 1, avoidNetworks, acc)

RECURSIVE networkLoopAnyDriver(_, _, _, _)
networkLoopAnyDriver(list, i, avoidNetworks, acc) ==
    IF i > Len(list) THEN acc
    ELSE IF list[i].Name \notin DOMAIN avoidNetworks
         THEN networkLoopAnyDriver(list, i + 1, avoidNetworks, Append(acc, list[i].Name))
         ELSE networkLoopAnyDriver(list, i + 1, avoidNetworks, acc)

getNetworkListAnyDriver(list, avoidNetworks) ==
    networkLoopAnyDriver(list, 1, avoidNetworks, <<>>)

getNetworkList(list, avoidNetworks) == networkLoop(list, 1, avoidNetworks, <<>>)

RECURSIVE nodeLoop(_, _, _, _)
nodeLoop(list, i, avoidMasters, acc) ==
    IF i > Len(list) THEN acc
    ELSE IF list[i].Role = "manager"
         THEN IF avoidMasters = 0
              THEN nodeLoop(list, i + 1, avoidMasters, Append(acc, list[i].Hostname))
              ELSE nodeLoop(list, i + 1, avoidMasters, acc)
         ELSE nodeLoop(list, i + 1, avoidMasters, Append(acc, list[i].Hostname))

RECURSIVE nodeLoopOnlyOne(_, _, _, _)
nodeLoopOnlyOne(list, i, avoidMasters, acc) ==
    IF i > Len(list) THEN acc
    ELSE IF list[i].Role = "manager"
         THEN IF avoidMasters # 1
              THEN nodeLoopOnlyOne(list, i + 1, avoidMasters, Append(acc, list[i].Hostname))
              ELSE nodeLoopOnlyOne(list, i + 1, avoidMasters, acc)
         ELSE nodeLoopOnlyOne(list, i + 1, avoidMasters, Append(acc, list[i].Hostname))

getNodeListOnlyOne(list, avoidMasters) == nodeLoopOnlyOne(list, 1, avoidMasters, <<>>)

getNodeList(list, avoidMasters) == nodeLoop(list, 1, avoidMasters, <<>>)

\* ---------------------------------------------------------- EnvTransformer
\* containerEnv[network] is a reference: the write goes to the map object
\* that configs[network] points at, whoever else points at it
setAndGetContainerEnvDash(h, cfgs, network) ==
    LET ref == cfgs[network]
        stackValue == Get(h[ref], "STACK_NAME").value
        serviceValue == Get(h[ref], "SERVICE_NAME").value
        stackKey == Get(h[ref], "STACK_NAME").key
        newStackName == stackValue \o <<"-">> \o network
        newServiceSpecName == newStackName \o Underscore \o serviceValue
        e1 == Put(h[ref], "STACK_NAME", KV(stackKey, newStackName))
        e2 == Put(e1, "SERVICE_SPEC_NAME", KV("SERVICE_SPEC_NAME", newServiceSpecName))
    IN  [h EXCEPT ![ref] = e2]

setAndGetContainerEnvNoNetwork(h, cfgs, network) ==
    LET ref == cfgs[network]
        stackValue == Get(h[ref], "STACK_NAME").value
        serviceValue == Get(h[ref], "SERVICE_NAME").value
        stackKey == Get(h[ref], "STACK_NAME").key
        newStackName == stackValue
        newServiceSpecName == newStackName \o Underscore \o serviceValue
        e1 == Put(h[ref], "STACK_NAME", KV(stackKey, newStackName))
        e2 == Put(e1, "SERVICE_SPEC_NAME", KV("SERVICE_SPEC_NAME", newServiceSpecName))
    IN  [h EXCEPT ![ref] = e2]

setAndGetContainerEnv(h, cfgs, network) ==
    LET ref == cfgs[network]
        stackValue == Get(h[ref], "STACK_NAME").value
        serviceValue == Get(h[ref], "SERVICE_NAME").value
        stackKey == Get(h[ref], "STACK_NAME").key
        newStackName == stackValue \o Underscore \o network
        newServiceSpecName == newStackName \o Underscore \o serviceValue
        e1 == Put(h[ref], "STACK_NAME", KV(stackKey, newStackName))
        e2 == Put(e1, "SERVICE_SPEC_NAME", KV("SERVICE_SPEC_NAME", newServiceSpecName))
    IN  [h EXCEPT ![ref] = e2]

\* one "KEY=VALUE" item per entry; the order of a map iteration is not
\* fixed, so the serialized environment is kept as the set of its items
getContainerEnv(e) == {<<e[k].key, "=", e[k].value>> : k \in DOMAIN e}

getServiceName(e) == Get(e, "SERVICE_NAME").value
getServiceSpecName(e) == Get(e, "SERVICE_SPEC_NAME").value
getStackName(e) == Get(e, "STACK_NAME").value
getImage(e) == Get(e, "IMAGE").value

LabelImage == "com.docker.stack.image"
LabelNamespace == "com.docker.stack.namespace"

\* -------------------------------------------------------- ServiceSpecBuilder
\* returns the heap after the transformation and the spec built from it;
\* replicas is uint64(len(nodes)), a length, so the conversion keeps its value
getServiceDefinition(h, replicas, network, cfg) ==
    LET h2 == setAndGetContainerEnv(h, cfg, network)
        e == h2[cfg[network]]
    IN  [heap |-> h2,
         spec |-> [Name |-> getServiceSpecName(e),
                   Image |-> getImage(e),
                   Command |-> <<"/go/bin/pinger">>,
                   Env |-> getContainerEnv(e),
                   Replicas |-> replicas,
                   Target |-> network,
                   Aliases |-> <<getServiceName(e)>>,
                   Labels |-> (LabelImage :> getImage(e))
                              @@ (LabelNamespace :> getStackName(e))]]

\* ------------------------------------------------------------------ inputs
Opt(k, vals) == {EmptyMap} \cup {k :> KV(k, v) : v \in vals}

Image == <<"i">>

MainEnvs ==
    {a @@ b @@ n @@ m @@ ("IMAGE" :> KV("IMAGE", Image)) :
        a \in Opt("STACK_NAME", {<<"a">>, <<"a", "_", "n">>}),
        b \in Opt("SERVICE_NAME", {<<"v">>}),
        n \in Opt("AVOID_NETWORKS", {<<"x">>, NetN}),
        m \in Opt("AVOID_MASTERS", {<<"0">>, <<"2">>, <<"b">>})}

NetEntries == [Name : {NetN, NetM, Ingress}, Driver : {"overlay", "bridge"}]

\* the platform reports every network once
NetworkLists ==
    {l \in SeqsUpTo(NetEntries, MaxNets) :
        \A i, j \in DOMAIN l : i # j => l[i].Name # l[j].Name}

NodeEntries == {[Role |-> "manager", Hostname |-> "m1"],
                [Role |-> "worker", Hostname |-> "w1"]}

NodeLists == SeqsUpTo(NodeEntries, MaxNodes)

\* ---------------------------------------------------------------- the run
InitWith(envs) ==
    /\ dotEnv \in envs
    /\ heap = <<dotEnv>>
    /\ containerEnv = 1
    /\ pc = "getConfig"
    /\ c = ZeroConfig
    /\ err = ErrNone
    /\ dockerNetworks = <<>>
    /\ dockerNodes = <<>>
    /\ networks = <<>>
    /\ nodes = <<>>
    /\ configs = EmptyMap
    /\ worklist = <<>>
    /\ calls = <<>>
    /\ results = <<>>
    /\ created = <<>>
    /\ fatal = ""
    /\ exitCode = -1

Init == InitWith(MainEnvs)

Die(msg, code) ==
    /\ pc' = "exit"
    /\ fatal' = msg
    /\ exitCode' = code

\* c, err := getConfig(containerEnv), and the check of err
GetConfig ==
    /\ pc = "getConfig"
    /\ LET r == getConfig(heap[containerEnv])
       IN  /\ c' = r.cfg
           /\ err' = r.err
           /\ IF r.err # ErrNone
              THEN Die("startup failed due to a config error", 1)
              ELSE /\ pc' = "getNetworkList"
                   /\ UNCHANGED <<fatal, exitCode>>
    /\ UNCHANGED <<dotEnv, heap, containerEnv, dockerNetworks, dockerNodes,
                   networks, nodes, configs, worklist, calls, results, created>>

\* networks := getNetworkList(c.AvoidNetworks), and the check of its length;
\* the platform call may fail
GetNetworkList ==
    /\ pc = "getNetworkList"
    /\ \/ /\ Die("docker api returned an error", 1)
          /\ UNCHANGED <<dockerNetworks, networks>>
       \/ \E list \in NetworkLists :
            /\ dockerNetworks' = list
            /\ networks' = getNetworkList(list, c.AvoidNetworks)
            /\ IF Len(networks') = 0
               THEN Die("no overlay networks found", 1)
               ELSE /\ pc' = "getNodeList"
                    /\ UNCHANGED <<fatal, exitCode>>
    /\ UNCHANGED <<dotEnv, heap, containerEnv, c, err, dockerNodes, nodes,
                   configs, worklist, calls, results, created>>

GetNodeListNoCheck ==
    /\ pc = "getNodeList"
    /\ \/ /\ Die("docker api returned an error", 1)
          /\ UNCHANGED <<dockerNodes, nodes>>
       \/ \E list \in NodeLists :
            /\ dockerNodes' = list
            /\ nodes' = getNodeList(list, c.AvoidMasters)
            /\ pc' = "newClient"
            /\ UNCHANGED <<fatal, exitCode>>
    /\ UNCHANGED <<dotEnv, heap, containerEnv, c, err, dockerNetworks, networks,
                   configs, worklist, calls, results, created>>

\* nodes := getNodeList(c.AvoidMasters), and the check of its length
GetNodeList ==
    /\ pc = "getNodeList"
    /\ \/ /\ Die("docker api returned an error", 1)
          /\ UNCHANGED <<dockerNodes, nodes>>
       \/ \E list \in NodeLists :
            /\ dockerNodes' = list
            /\ nodes' = getNodeList(list, c.AvoidMasters)
            /\ IF Len(nodes') = 0
               THEN Die("no useable nodes found", 1)
               ELSE /\ pc' = "newClient"
                    /\ UNCHANGED <<fatal, exitCode>>
    /\ UNCHANGED <<dotEnv, heap, containerEnv, c, err, dockerNetworks, networks,
                   configs, worklist, calls, results, created>>

\* worklist := []swarm.ServiceSpec{}; cli, err := client.NewClient(...)
NewClient ==
    /\ pc = "newClient"
    /\ \/ Die("panic", 2)
       \/ /\ pc' = "configs"
          /\ UNCHANGED <<fatal, exitCode>>
    /\ UNCHANGED <<dotEnv, heap, containerEnv, c, err, dockerNetworks,
                   dockerNodes, networks, nodes, configs, worklist, calls,
                   results, created>>

\* configs := make(map[string]env); configs[network] = containerEnv for
\* every network: the assignment of a map copies the reference
MakeConfigs ==
    /\ pc = "configs"
    /\ configs' = [n \in Range(networks) |-> containerEnv]
    /\ pc' = "build"
    /\ UNCHANGED <<dotEnv, heap, containerEnv, c, err, dockerNetworks,
                   dockerNodes, networks, nodes, worklist, calls, results,
                   created, fatal, exitCode>>

\* one iteration of the loop that builds the worklist
BuildServiceDefinition ==
    /\ pc = "build"
    /\ Len(worklist) < Len(networks)
    /\ LET network == networks[Len(worklist) + 1]
           numberOfNodes == Len(nodes)
           r == getServiceDefinition(heap, numberOfNodes, network, configs)
       IN  /\ heap' = r.heap
           /\ worklist' = Append(worklist, r.spec)
           /\ pc' = IF Len(worklist') = Len(networks) THEN "deploy" ELSE "build"
    /\ UNCHANGED <<dotEnv, containerEnv, c, err, dockerNetworks, dockerNodes,
                   networks, nodes, configs, calls, results, created, fatal,
                   exitCode>>

ServiceCreateContinue ==
    /\ pc = "deploy"
    /\ Len(calls) < Len(worklist)
    /\ LET work == worklist[Len(calls) + 1]
       IN  /\ calls' = Append(calls, work)
           /\ \E ok \in BOOLEAN :
                /\ results' = Append(results, ok)
                /\ created' = IF ok THEN Append(created, work.Name) ELSE created
                /\ IF Len(calls') = Len(worklist)
                   THEN /\ pc' = "done"
                        /\ exitCode' = 0
                        /\ UNCHANGED fatal
                   ELSE UNCHANGED <<pc, fatal, exitCode>>
    /\ UNCHANGED <<dotEnv, heap, containerEnv, c, err, dockerNetworks,
                   dockerNodes, networks, nodes, configs, worklist>>

\* one iteration of the loop that executes the worklist; main returns after
\* the last one
ServiceCreate ==
    /\ pc = "deploy"
    /\ Len(calls) < Len(worklist)
    /\ LET work == worklist[Len(calls) + 1]
       IN  /\ calls' = Append(calls, work)
           /\ \E ok \in BOOLEAN :
                /\ results' = Append(results, ok)
                /\ IF ~ok
                   THEN /\ Die("unable to create service", 1)
                        /\ UNCHANGED created
                   ELSE /\ created' = Append(created, work.Name)
                        /\ IF Len(calls') = Len(worklist)
                           THEN /\ pc' = "done"
                                /\ exitCode' = 0
                                /\ UNCHANGED fatal
                           ELSE UNCHANGED <<pc, fatal, exitCode>>
    /\ UNCHANGED <<dotEnv, heap, containerEnv, c, err, dockerNetworks,
                   dockerNodes, networks, nodes, configs, worklist>>

Next ==
    \/ GetConfig
    \/ GetNetworkList
    \/ GetNodeList
    \/ NewClient
    \/ MakeConfigs
    \/ BuildServiceDefinition
    \/ ServiceCreate

Spec == Init /\ [][Next]_vars

\* ------------------------------------------- getConfig on its own inputs
ConfigEnvs ==
    {n @@ m @@ ("STACK_NAME" :> KV("STACK_NAME", <<"a">>))
       @@ ("SERVICE_NAME" :> KV("SERVICE_NAME", <<"v">>))
       @@ ("IMAGE" :> KV("IMAGE", Image)) :
        n \in Opt("AVOID_NETWORKS", SeqsUpTo({"a", "b", ","}, MaxNetStr)),
        m \in Opt("AVOID_MASTERS", SeqsUpTo({"0", "1", "2", "-", "+", "b"}, MaxIntStr))}

InitConfig == InitWith(ConfigEnvs)

NextConfig == GetConfig

SpecConfig == InitConfig /\ [][NextConfig]_vars

\* ================================================================= claims
Join(a, b) == a \o <<"_">> \o b

HasBase(e) == {"STACK_NAME", "SERVICE_NAME", "IMAGE"} \subseteq DOMAIN e

Distinct(s) == \A i, j \in DOMAIN s : i # j => s[i] # s[j]

BaseS == dotEnv["STACK_NAME"].value
BaseV == dotEnv["SERVICE_NAME"].value
BaseI == dotEnv["IMAGE"].value

\* C1: with base environment {STACK_NAME=S, SERVICE_NAME=V, IMAGE=I},
\* pairwise distinct discovered networks N1..Nk and c >= 1 nodes, the
\* worklist has k definitions in discovery order, the i-th with name
\* S_Ni_V, replica count c, network Ni and labels {image: I, namespace: S_Ni}.
C1_WorklistPerNetwork ==
    (HasBase(dotEnv) /\ Distinct(networks) /\ Len(nodes) >= 1)
    => /\ Len(worklist) <= Len(networks)
       /\ pc \in {"deploy", "done"} => Len(worklist) = Len(networks)
       /\ \A i \in 1..Len(worklist) :
            /\ worklist[i].Name = Join(Join(BaseS, networks[i]), BaseV)
            /\ worklist[i].Replicas = Len(nodes)
            /\ worklist[i].Target = networks[i]
            /\ worklist[i].Labels = (LabelImage :> BaseI)
                                    @@ (LabelNamespace :> Join(BaseS, networks[i]))

\* C2: the EnvironmentSet holds a distinct Environment per network, and the
\* transformation for network N changes only the Environment stored under N:
\* the Environment of every other network M # N stays as it was.
C2_TransformFrame ==
    [][(pc = "build" /\ worklist' # worklist)
       => LET N == networks[Len(worklist) + 1]
          IN  \A M \in DOMAIN configs :
                 M # N => /\ configs[M] # configs[N]
                          /\ heap'[configs'[M]] = heap[configs[M]]]_vars

\* C3: the create-service calls issued are the prefix of the worklist, in
\* order and one per entry, that ends at the first failing entry: every call
\* but the last one succeeded, a failed call ends the run with failure, and
\* what was created before it stays created.
Successes == IF calls # <<>> /\ ~results[Len(calls)] THEN Len(calls) - 1 ELSE Len(calls)

C3_FailFast ==
    /\ Len(results) = Len(calls)
    /\ Len(calls) <= Len(worklist)
    /\ calls = SubSeq(worklist, 1, Len(calls))
    /\ \A i \in 1..(Len(calls) - 1) : results[i]
    /\ (calls # <<>> /\ ~results[Len(calls)])
       => (pc = "exit" /\ exitCode = 1 /\ fatal = "unable to create service")
    /\ created = [i \in 1..Successes |-> worklist[i].Name]
    /\ pc = "done" => (Len(calls) = Len(worklist) /\ Successes = Len(calls)
                       /\ exitCode = 0)

C3_Witness ==
    /\ Len(worklist) = 3
    /\ results = <<TRUE, FALSE>>
    /\ Len(calls) = 2
    /\ Len(created) = 1
    /\ pc = "exit"

\* C4: an empty network list or an empty node list ends the run with failure
\* before any ServiceDefinition is built and before any create-service call;
\* no state has an empty network or node list and a non-empty worklist.
AfterNetworks == {"getNodeList", "newClient", "configs", "build", "deploy", "done"}
AfterNodes == {"newClient", "configs", "build", "deploy", "done"}

C4_EmptyDiscoveryHalts ==
    /\ pc \in AfterNetworks => networks # <<>>
    /\ pc \in AfterNodes => nodes # <<>>
    /\ (worklist # <<>> \/ calls # <<>> \/ configs # EmptyMap)
       => (networks # <<>> /\ nodes # <<>>)
    /\ fatal = "no overlay networks found"
       => (networks = <<>> /\ pc = "exit" /\ exitCode = 1)
    /\ fatal = "no useable nodes found"
       => (nodes = <<>> /\ pc = "exit" /\ exitCode = 1)

C4_Witness ==
    /\ fatal = "no useable nodes found"
    /\ dockerNodes # <<>>
    /\ nodes = <<>>
    /\ networks # <<>>
    /\ worklist = <<>>
    /\ calls = <<>>

C6_NamesDistinct ==
    Distinct(networks)
    => \A i, j \in 1..Len(worklist) :
         i # j => /\ worklist[i].Name # worklist[j].Name
                  /\ worklist[i].Labels[LabelNamespace]
                       # worklist[j].Labels[LabelNamespace]

C6_Witness ==
    /\ Len(worklist) = 3
    /\ Distinct(networks)
    /\ "STACK_NAME" \in DOMAIN dotEnv
    /\ worklist[1].Name # worklist[2].Name
    /\ worklist[2].Name # worklist[3].Name

\* C7: getNetworkList returns, in the platform's order, the names of exactly
\* the networks whose driver is "overlay" and whose name is not in the
\* avoid-set.
Eligible(net) == net.Driver = "overlay" /\ net.Name \notin DOMAIN c.AvoidNetworks

NamesOf(l) == [i \in 1..Len(l) |-> l[i].Name]

C7_NetworkFilter ==
    /\ networks = NamesOf(SelectSeq(dockerNetworks, Eligible))
    /\ \A i \in DOMAIN dockerNetworks :
         dockerNetworks[i].Driver # "overlay"
         => dockerNetworks[i].Name \notin Range(networks)
    /\ \A n \in Range(networks) : n \notin DOMAIN c.AvoidNetworks

C7_Witness ==
    /\ Len(dockerNetworks) = 3
    /\ dockerNetworks[1].Driver = "bridge"
    /\ dockerNetworks[1].Name \notin DOMAIN c.AvoidNetworks
    /\ dockerNetworks[2].Driver = "overlay"
    /\ dockerNetworks[2].Name \in DOMAIN c.AvoidNetworks
    /\ dockerNetworks[3].Driver = "overlay"
    /\ networks = <<dockerNetworks[3].Name>>

\* C8: getNodeList returns, in the platform's order, the hostnames of exactly
\* the nodes that are not managers while avoidMasters is nonzero.
Useable(node) == ~(node.Role = "manager" /\ c.AvoidMasters # 0)

HostsOf(l) == [i \in 1..Len(l) |-> l[i].Hostname]

ManagerThenWorker == <<[Role |-> "manager", Hostname |-> "m1"],
                       [Role |-> "worker", Hostname |-> "w1"]>>

C8_NodeFilter ==
    /\ nodes = HostsOf(SelectSeq(dockerNodes, Useable))
    /\ (dockerNodes = ManagerThenWorker /\ c.AvoidMasters = 1) => nodes = <<"w1">>
    /\ (dockerNodes = ManagerThenWorker /\ c.AvoidMasters = 0) => nodes = <<"m1", "w1">>

C8_Witness ==
    /\ dockerNodes = ManagerThenWorker
    /\ c.AvoidMasters = 2
    /\ nodes = <<"w1">>

\* an integer literal: an optional sign and at least one decimal digit
IsIntLiteral(s) ==
    \E k \in {0, 1} :
        /\ Len(s) > k
        /\ k = 1 => s[1] \in {"+", "-"}
        /\ \A i \in (k + 1)..Len(s) : s[i] \in Digits

RECURSIVE Pow10(_)
Pow10(n) == IF n = 0 THEN 1 ELSE 10 * Pow10(n - 1)

\* the sum of digit * 10^position over the positions from i on
RECURSIVE PlaceSum(_, _)
PlaceSum(s, i) ==
    IF i > Len(s) THEN 0
    ELSE (IF s[i] \in Digits THEN DigitVal(s[i]) * Pow10(Len(s) - i) ELSE 0)
         + PlaceSum(s, i + 1)

LiteralValue(s) == IF s[1] = "-" THEN 0 - PlaceSum(s, 1) ELSE PlaceSum(s, 1)

MastersPresent == "AVOID_MASTERS" \in DOMAIN dotEnv
MastersRaw == dotEnv["AVOID_MASTERS"].value

ConfigHalted ==
    /\ err = ErrAvoidMasters
    /\ pc = "exit"
    /\ exitCode = 1
    /\ dockerNetworks = <<>>
    /\ dockerNodes = <<>>

\* C9 as stated: AVOID_MASTERS absent gives 1, a present valid integer gives
\* its value, and every present value that is not a valid integer is a
\* config error that halts the run before discovery.
C9_AsStated ==
    pc # "getConfig"
    => /\ ~MastersPresent => (err = ErrNone /\ c.AvoidMasters = 1)
       /\ (MastersPresent /\ IsIntLiteral(MastersRaw))
          => (err = ErrNone /\ c.AvoidMasters = LiteralValue(MastersRaw))
       /\ (MastersPresent /\ ~IsIntLiteral(MastersRaw)) => ConfigHalted

\* C9 as amended: AVOID_MASTERS absent or empty gives 1, a present valid
\* integer gives its value ("0" gives 0, "1" gives 1), and every present
\* non-empty value that is not a valid integer is a config error that halts
\* the run before discovery.
C9_AvoidMasters ==
    pc # "getConfig"
    => /\ (~MastersPresent \/ MastersRaw = <<>>)
          => (err = ErrNone /\ c.AvoidMasters = 1 /\ pc = "getNetworkList")
       /\ (MastersPresent /\ IsIntLiteral(MastersRaw))
          => (err = ErrNone /\ c.AvoidMasters = LiteralValue(MastersRaw))
       /\ (MastersPresent /\ MastersRaw = <<"0">>) => c.AvoidMasters = 0
       /\ (MastersPresent /\ MastersRaw = <<"1">>) => c.AvoidMasters = 1
       /\ (MastersPresent /\ MastersRaw # <<>> /\ ~IsIntLiteral(MastersRaw))
          => ConfigHalted

C9_Witness ==
    /\ MastersPresent
    /\ MastersRaw = <<>>
    /\ pc = "getNetworkList"
    /\ c.AvoidMasters = 1

\* the comma-separated fields of a string: the maximal comma-free stretches
\* between two separators (or an end of the string)
Fields(s) ==
    {SubSeq(s, a + 1, b - 1) : <<a, b>> \in
        {p \in (0..Len(s)) \X (1..(Len(s) + 1)) :
            /\ p[1] < p[2]
            /\ p[1] = 0 \/ s[p[1]] = ","
            /\ p[2] = Len(s) + 1 \/ s[p[2]] = ","
            /\ \A i \in (p[1] + 1)..(p[2] - 1) : s[i] # ","}}

NetworksRaw == Get(dotEnv, "AVOID_NETWORKS").value

\* C10: AVOID_NETWORKS absent or empty gives {"ingress"}, any other value
\* gives exactly the set of its comma-separated names, replacing the default,
\* and the error for an empty resulting set is never raised.
C10_AvoidNetworks ==
    pc # "getConfig"
    => /\ err # ErrAvoidNetworks
       /\ NetworksRaw = <<>> => DOMAIN c.AvoidNetworks = {Ingress}
       /\ NetworksRaw # <<>> => DOMAIN c.AvoidNetworks = Fields(NetworksRaw)
       /\ NetworksRaw = <<"a", ",", "b">>
          => DOMAIN c.AvoidNetworks = {<<"a">>, <<"b">>}
       /\ \A v \in DOMAIN c.AvoidNetworks : c.AvoidNetworks[v] = v

C10_Witness ==
    /\ pc # "getConfig"
    /\ NetworksRaw = <<"a", ",", "b">>
    /\ DOMAIN c.AvoidNetworks = {<<"a">>, <<"b">>}
    /\ Ingress \notin DOMAIN c.AvoidNetworks
====
